---- MODULE Spec2Model ----
(***************************************************************************)
(* Credit-risk scoring app (src/app.py): the artifact loader, the          *)
(* preprocessing pipeline (imputation, feature engineering, one-hot        *)
(* encoding, schema alignment, scaling) and the risk categorizer, as a     *)
(* state machine over Streamlit script runs.                               *)
(*                                                                         *)
(* Numbers are exact rationals <<num, den>>; NaN is <<0, 0>> and an        *)
(* infinity is <<1, 0>>.  A one-row DataFrame is a sequence of             *)
(* [name, val] columns, in column order.                                   *)
(***************************************************************************)
EXTENDS Integers, Sequences, FiniteSets

VARIABLES
    disk,          \* the five artifact files in the working directory
    artifacts,     \* st.cache_resource entry of load_artifacts (NotLoaded when empty)
    stage,         \* where the last script run ended
    record,        \* the ApplicantRecord as created for the last request
    input_df,      \* the caller's DataFrame object after preprocess_input returned
    engineered,    \* the frame engineer_features returned
    processed_df,  \* preprocess_input's local processed_df at its last assignment
    scaler_input,  \* the frame handed to scaler.transform (NoFrame if never)
    scaled_data,   \* what preprocess_input returned (NoData if it raised)
    used,          \* the artifacts the last request called into
    probability,   \* model.predict_proba(...)[0, 1] (NaN if never called)
    risk_level     \* the band shown ("" if none)

vars == <<disk, artifacts, stage, record, input_df, engineered, processed_df,
          scaler_input, scaled_data, used, probability, risk_level>>

----------------------------------------------------------------------------
(* Bounds of the model *)

AgeDen == 2
MaxIncome == 1
MaxDebtRatio == 1
MaxDependents == 1
PScale == 10
FittedMedian == 3
FittedMode == 2

(* Program constants *)

MinAge == 18
MaxAge == 100
DrDen == 100
EpsDen == 1000000

----------------------------------------------------------------------------
(* Rational arithmetic with NaN, as numpy float arithmetic propagates it *)

NaN == <<0, 0>>
Inf == <<1, 0>>
Num(n) == <<n, 1>>
IsFinite(a) == a[2] # 0
RZero(a) == IsFinite(a) /\ a[1] = 0
REq(a, b) == IsFinite(a) /\ IsFinite(b) /\ a[1] * b[2] = b[1] * a[2]
RLt(a, b) == IsFinite(a) /\ IsFinite(b) /\ a[1] * b[2] < b[1] * a[2]
RAdd(a, b) ==
    IF IsFinite(a) /\ IsFinite(b) THEN <<a[1] * b[2] + b[1] * a[2], a[2] * b[2]>> ELSE NaN
RMul(a, b) ==
    IF IsFinite(a) /\ IsFinite(b) THEN <<a[1] * b[1], a[2] * b[2]>> ELSE NaN
RDiv(a, b) ==
    IF ~(IsFinite(a) /\ IsFinite(b)) THEN NaN
    ELSE IF b[1] = 0 THEN (IF a[1] = 0 THEN NaN ELSE Inf)
    ELSE <<a[1] * b[2], a[2] * b[1]>>
Trunc(a) == Num(a[1] \div a[2])

----------------------------------------------------------------------------
(* One-row DataFrames *)

NoFrame == <<>>
NoData == <<>>
Names(df) == [i \in 1..Len(df) |-> df[i].name]
Columns(df) == {df[i].name : i \in 1..Len(df)}
HasCol(df, c) == c \in Columns(df)
Col(df, c) == df[CHOOSE i \in 1..Len(df) : df[i].name = c].val
SetCol(df, c, v) ==
    IF HasCol(df, c)
    THEN [i \in 1..Len(df) |-> IF df[i].name = c THEN [name |-> c, val |-> v] ELSE df[i]]
    ELSE Append(df, [name |-> c, val |-> v])
DropCol(df, c) == SelectSeq(df, LAMBDA e : e.name # c)
Range(s) == {s[i] : i \in 1..Len(s)}

----------------------------------------------------------------------------
(* Fitted artifacts.  An unpickled object is [type, param, names]: param   *)
(* is a scaler's fitted column count or an imputer's fitted statistic,     *)
(* names the feature list.                                                 *)

Obj(t, p, ns) == [type |-> t, param |-> p, names |-> ns]
File(st, o) == [status |-> st, obj |-> o]
NoObj == Obj("none", 0, <<>>)
NotLoaded == [model |-> NoObj, scaler |-> NoObj, imputer_median |-> NoObj,
              imputer_mode |-> NoObj, feature_names |-> NoObj]
required_files == {"model", "scaler", "imputer_median", "imputer_mode", "feature_names"}
LabelColumn == "SeriousDlqin2yrs"

(* The column lists a feature_names.pkl may hold *)
RawColumns ==
    << "RevolvingUtilizationOfUnsecuredLines", "age",
       "NumberOfTime30-59DaysPastDueNotWorse", "DebtRatio", "MonthlyIncome",
       "NumberOfOpenCreditLinesAndLoans", "NumberOfTimes90DaysLate",
       "NumberRealEstateLoansOrLines", "NumberOfTime60-89DaysPastDueNotWorse",
       "NumberOfDependents" >>
TrainingSchema ==
    RawColumns \o << "TotalMissedPayments", "IncomeDebtRatio", "CreditBurden",
                     "AgeGroup_Middle-aged", "AgeGroup_Senior", "AgeGroup_Elderly" >>
LabelledSchema == <<LabelColumn>> \o TrainingSchema
ReorderedSchema ==
    << "AgeGroup_Elderly", "AgeGroup_Senior", "AgeGroup_Middle-aged",
       "IncomeDebtRatio", "MonthlyIncome", "NumberOfDependents", "age" >>
WiderSchema == TrainingSchema \o << "AgeGroup_Young" >>
Schemas == {TrainingSchema, LabelledSchema, ReorderedSchema, WiderSchema}
ScalerWidths == {Len(s) : s \in Schemas}

GoodDisk(schema, n) ==
    [model |-> File("ok", Obj("XGBClassifier", 0, <<>>)),
     scaler |-> File("ok", Obj("StandardScaler", n, <<>>)),
     imputer_median |-> File("ok", Obj("SimpleImputer", FittedMedian, <<>>)),
     imputer_mode |-> File("ok", Obj("SimpleImputer", FittedMode, <<>>)),
     feature_names |-> File("ok", Obj("list", 0, schema))]
GoodDisks == {GoodDisk(s, n) : s \in Schemas, n \in ScalerWidths}

(* What a defective file may be: absent, unreadable as a pickle, or a      *)
(* pickle of an object of another type.                                    *)
BadFiles(f) ==
    {File("missing", NoObj), File("corrupt", NoObj)} \cup
    (CASE f = "model" -> {File("ok", Obj("RandomForestClassifier", 0, <<>>))}
       [] f = "scaler" -> {File("ok", Obj("dict", 0, <<>>)),
                           File("ok", Obj("MinMaxScaler", Len(TrainingSchema), <<>>))}
       [] f = "feature_names" -> {File("ok", Obj("NoneType", 0, <<>>))}
       [] OTHER -> {File("ok", Obj("dict", 0, <<>>))})
FaultyDisks ==
    {[GoodDisk(TrainingSchema, Len(TrainingSchema)) EXCEPT ![f] = b] :
        <<f, b>> \in UNION {{<<g, c>> : c \in BadFiles(g)} : g \in required_files}}
Deployments == GoodDisks \cup FaultyDisks

(* load_artifacts: every file must exist, every pickle must load, and the  *)
(* model must be an XGBClassifier; nothing else is checked.                *)
load_artifacts(d) ==
    LET missing_files == {f \in required_files : d[f].status = "missing"}
    IN  IF missing_files # {} THEN [ok |-> FALSE, value |-> NotLoaded]
        ELSE IF d.model.status = "corrupt" THEN [ok |-> FALSE, value |-> NotLoaded]
        ELSE IF d.model.obj.type # "XGBClassifier" THEN [ok |-> FALSE, value |-> NotLoaded]
        ELSE IF \E f \in required_files : d[f].status = "corrupt"
             THEN [ok |-> FALSE, value |-> NotLoaded]
        ELSE [ok |-> TRUE, value |-> [f \in required_files |-> d[f].obj]]

(* st.cache_resource: a stored return value is reused; a run that stopped  *)
(* stores nothing.                                                         *)
cached_load(cache, d) ==
    IF cache # NotLoaded THEN [ok |-> TRUE, value |-> cache] ELSE load_artifacts(d)

----------------------------------------------------------------------------
(* Imputers and scaler *)

(* SimpleImputer.transform on one cell; an object of another type has no   *)
(* transform method.                                                       *)
ImputerTransform(imputer, v) ==
    IF imputer.type # "SimpleImputer" THEN [raised |-> TRUE, out |-> NaN]
    ELSE [raised |-> FALSE, out |-> IF IsFinite(v) THEN v ELSE Num(imputer.param)]

ScalerFitTransform(sc, X) ==
    IF sc.type \notin {"StandardScaler", "MinMaxScaler"}
    THEN [raised |-> TRUE, out |-> NoData, scaler |-> sc]
    ELSE [raised |-> FALSE, out |-> <<1, Len(X)>>, scaler |-> [sc EXCEPT !.param = Len(X)]]

ScalerTransformUnchecked(sc, X) ==
    IF sc.type \notin {"StandardScaler", "MinMaxScaler"}
    THEN [raised |-> TRUE, out |-> NoData, scaler |-> sc]
    ELSE [raised |-> FALSE, out |-> <<1, sc.param>>, scaler |-> sc]

(* scaler.transform: raises on a column count other than the fitted one;   *)
(* returns an array of the input's shape and leaves the scaler as it was.  *)
ScalerTransform(sc, X) ==
    IF sc.type \notin {"StandardScaler", "MinMaxScaler"}
    THEN [raised |-> TRUE, out |-> NoData, scaler |-> sc]
    ELSE IF Len(X) # sc.param
    THEN [raised |-> TRUE, out |-> NoData, scaler |-> sc]
    ELSE [raised |-> FALSE, out |-> <<1, Len(X)>>, scaler |-> sc]

----------------------------------------------------------------------------
(* engineer_features *)

epsilon == <<1, EpsDen>>
bins == <<0, 30, 50, 65, 100>>
labels == <<"Young", "Middle-aged", "Senior", "Elderly">>

CutLeftClosed(a) ==
    IF \E i \in 1..Len(labels) : bins[i] <= a /\ a < bins[i + 1]
    THEN Num(CHOOSE i \in 1..Len(labels) : bins[i] <= a /\ a < bins[i + 1])
    ELSE NaN

(* pd.cut(age, bins, labels): the category code of the right-closed bin    *)
(* holding a, NaN outside every bin.                                       *)
Cut(a) ==
    IF \E i \in 1..Len(labels) : bins[i] < a /\ a <= bins[i + 1]
    THEN Num(CHOOSE i \in 1..Len(labels) : bins[i] < a /\ a <= bins[i + 1])
    ELSE NaN

(* np.where computes the quotient for every row, then picks by the mask *)
Denominator(income, debt) == RAdd(RMul(debt, income), epsilon)
IncomeDebtRatioSimplified(income, debt) ==
    IF RZero(debt) THEN Num(0) ELSE RDiv(Num(1), debt)

IncomeDebtRatio(income, debt) ==
    LET quotient == RDiv(income, Denominator(income, debt))
    IN  IF RZero(debt) THEN Num(0) ELSE quotient

engineer_features(df0) ==
    LET df1 == SetCol(df0, "TotalMissedPayments",
                 RAdd(RAdd(Col(df0, "NumberOfTime30-59DaysPastDueNotWorse"),
                           Col(df0, "NumberOfTime60-89DaysPastDueNotWorse")),
                      Col(df0, "NumberOfTimes90DaysLate")))
        df2 == SetCol(df1, "IncomeDebtRatio",
                 IncomeDebtRatio(Col(df1, "MonthlyIncome"), Col(df1, "DebtRatio")))
        df3 == SetCol(df2, "CreditBurden",
                 RDiv(Col(df2, "RevolvingUtilizationOfUnsecuredLines"),
                      RAdd(Col(df2, "NumberOfOpenCreditLinesAndLoans"), Num(1))))
        df4 == SetCol(df3, "age", Trunc(Col(df3, "age")))
    IN  SetCol(df4, "AgeGroup", Cut(Col(df4, "age")[1]))

(* pd.get_dummies(df, columns=["AgeGroup"], drop_first=True): the column   *)
(* is replaced by one indicator per category but the first.                *)
RECURSIVE Dummies(_, _, _)
Dummies(df, code, i) ==
    IF i > Len(labels) THEN df
    ELSE Dummies(Append(df, [name |-> "AgeGroup_" \o labels[i],
                             val |-> IF REq(code, Num(i)) THEN Num(1) ELSE Num(0)]),
                 code, i + 1)
get_dummies(df) == Dummies(DropCol(df, "AgeGroup"), Col(df, "AgeGroup"), 2)

----------------------------------------------------------------------------
(* preprocess_input *)

NeedsFillAnyColumn(df, col) == ~HasCol(df, col)

(* line 192: the columns the fill loop adds *)
NeedsFill(df, col) == ~HasCol(df, col) /\ col # LabelColumn

RECURSIVE FillMissing(_, _, _)
FillMissing(df, names, i) ==
    IF i > Len(names) THEN df
    ELSE FillMissing(IF NeedsFill(df, names[i]) THEN SetCol(df, names[i], Num(0)) ELSE df,
                     names, i + 1)

SelectInFrameOrder(df, names) ==
    IF \E i \in 1..Len(names) : ~HasCol(df, names[i])
    THEN [raised |-> TRUE, out |-> NoFrame]
    ELSE [raised |-> FALSE, out |-> SelectSeq(df, LAMBDA e : e.name \in Range(names))]

(* processed_df[feature_names]: the named columns in the list's order; a   *)
(* name that is no column raises KeyError.                                 *)
SelectColumns(df, names) ==
    IF \E i \in 1..Len(names) : ~HasCol(df, names[i])
    THEN [raised |-> TRUE, out |-> NoFrame]
    ELSE [raised |-> FALSE,
          out |-> [i \in 1..Len(names) |-> [name |-> names[i], val |-> Col(df, names[i])]]]

FeatureInputBeforeImputation(raw_df, imputed_df) == raw_df

(* line 185: engineer_features is given input_df as lines 181-182 left it *)
FeatureInput(raw_df, imputed_df) == imputed_df

Outcome(err, in_df, eng, proc, handed, data, u, sc) ==
    [error |-> err, input_df |-> in_df, engineered |-> eng, processed_df |-> proc,
     scaler_input |-> handed, scaled_data |-> data, used |-> u, scaler |-> sc]

(* The columns are assigned on the caller's frame (lines 181-182); every   *)
(* exception ends the script run (lines 202-204).                          *)
preprocess_input(df, art) ==
    LET med == ImputerTransform(art.imputer_median, Col(df, "MonthlyIncome"))
        df1 == SetCol(df, "MonthlyIncome", med.out)
        mod == ImputerTransform(art.imputer_mode, Col(df1, "NumberOfDependents"))
        df2 == SetCol(df1, "NumberOfDependents", mod.out)
        eng == engineer_features(FeatureInput(df, df2))
        dum == get_dummies(eng)
        filled == FillMissing(dum, art.feature_names.names, 1)
        sel == SelectColumns(filled, art.feature_names.names)
        tr == ScalerTransform(art.scaler, sel.out)
        imputers == {"imputer_median", "imputer_mode"}
    IN  IF med.raised
        THEN Outcome("impute", df, NoFrame, NoFrame, NoFrame, NoData,
                     {"imputer_median"}, art.scaler)
        ELSE IF mod.raised
        THEN Outcome("impute", df1, NoFrame, NoFrame, NoFrame, NoData,
                     imputers, art.scaler)
        ELSE IF art.feature_names.type # "list"
        THEN Outcome("align", df2, eng, dum, NoFrame, NoData,
                     imputers \cup {"feature_names"}, art.scaler)
        ELSE IF sel.raised
        THEN Outcome("align", df2, eng, filled, NoFrame, NoData,
                     imputers \cup {"feature_names"}, art.scaler)
        ELSE IF tr.raised
        THEN Outcome("scale", df2, eng, sel.out, sel.out, NoData,
                     imputers \cup {"feature_names", "scaler"}, tr.scaler)
        ELSE Outcome("", df2, eng, sel.out, sel.out, tr.out,
                     imputers \cup {"feature_names", "scaler"}, tr.scaler)

categorizeInclusive(p) ==
    IF ~RLt(<<3, 10>>, p) THEN "Low Risk"
    ELSE IF ~RLt(<<7, 10>>, p) THEN "Medium Risk"
    ELSE "High Risk"

(* main, lines 285-296 *)
categorize(p) ==
    IF RLt(p, <<3, 10>>) THEN "Low Risk"
    ELSE IF RLt(p, <<7, 10>>) THEN "Medium Risk"
    ELSE "High Risk"

----------------------------------------------------------------------------
(* Inputs *)

Ages == {<<n, AgeDen>> : n \in (MinAge * AgeDen)..(MaxAge * AgeDen)}
Incomes == {NaN} \cup {Num(n) : n \in 0..MaxIncome}
DebtRatios == {<<n, DrDen>> : n \in 0..MaxDebtRatio}
Dependents == {NaN} \cup {Num(n) : n \in 0..MaxDependents}
Probabilities == {<<k, PScale>> : k \in 0..PScale}

(* main, lines 258-271: the frame built from the form, the fields the      *)
(* model does not vary at the form's default values.                       *)
ApplicantRecord(age, income, debt, deps) ==
    << [name |-> "RevolvingUtilizationOfUnsecuredLines", val |-> <<1, 2>>],
       [name |-> "age", val |-> age],
       [name |-> "NumberOfTime30-59DaysPastDueNotWorse", val |-> Num(0)],
       [name |-> "DebtRatio", val |-> debt],
       [name |-> "MonthlyIncome", val |-> income],
       [name |-> "NumberOfOpenCreditLinesAndLoans", val |-> Num(5)],
       [name |-> "NumberOfTimes90DaysLate", val |-> Num(0)],
       [name |-> "NumberRealEstateLoansOrLines", val |-> Num(1)],
       [name |-> "NumberOfTime60-89DaysPastDueNotWorse", val |-> Num(0)],
       [name |-> "NumberOfDependents", val |-> deps] >>
Records ==
    {ApplicantRecord(a, i, d, n) : a \in Ages, i \in Incomes, d \in DebtRatios, n \in Dependents}
(* The records and probabilities of the session specification: the ages    *)
(* next to the first and the last bin edge, the band boundaries.           *)
SessionRecords ==
    {ApplicantRecord(<<30 * AgeDen, AgeDen>>, NaN, <<1, DrDen>>, NaN),
     ApplicantRecord(<<31 * AgeDen, AgeDen>>, Num(1), <<0, DrDen>>, Num(0)),
     ApplicantRecord(<<66 * AgeDen, AgeDen>>, Num(0), <<1, DrDen>>, Num(1))}
EdgeProbabilities == {p \in Probabilities : p[1] \in {0, PScale}}

----------------------------------------------------------------------------
(* Script runs.  Streamlit runs the whole script on every interaction.     *)

ClearRequest ==
    /\ record' = NoFrame
    /\ input_df' = NoFrame
    /\ engineered' = NoFrame
    /\ processed_df' = NoFrame
    /\ scaler_input' = NoFrame
    /\ scaled_data' = NoData
    /\ used' = {}
    /\ probability' = NaN
    /\ risk_level' = ""

(* line 150 stops the run: load_artifacts raised and called st.stop() *)
RunStopsAtLoad ==
    /\ ~cached_load(artifacts, disk).ok
    /\ artifacts' = NotLoaded
    /\ stage' = "load_error"
    /\ ClearRequest
    /\ UNCHANGED disk

(* the form is drawn and nothing was submitted (lines 332-338) *)
RunShowsForm ==
    /\ cached_load(artifacts, disk).ok
    /\ artifacts' = cached_load(artifacts, disk).value
    /\ stage' = "form"
    /\ ClearRequest
    /\ UNCHANGED disk

(* the form was submitted (lines 256-296): the previous run drew it, and  *)
(* so got past line 150                                                    *)
RunScores(records, probabilities) ==
    /\ stage \in {"form", "preprocess_error", "scored"}
    /\ cached_load(artifacts, disk).ok
    /\ \E rec \in records :
       \E art \in {cached_load(artifacts, disk).value} :
       \E r \in {preprocess_input(rec, art)} :
         /\ artifacts' = [art EXCEPT !.scaler = r.scaler]
         /\ record' = rec
         /\ input_df' = r.input_df
         /\ engineered' = r.engineered
         /\ processed_df' = r.processed_df
         /\ scaler_input' = r.scaler_input
         /\ scaled_data' = r.scaled_data
         /\ IF r.error # ""
            THEN /\ stage' = "preprocess_error"
                 /\ used' = r.used
                 /\ probability' = NaN
                 /\ risk_level' = ""
            ELSE /\ stage' = "scored"
                 /\ used' = r.used \cup {"model"}
                 /\ \E p \in probabilities :
                      /\ probability' = p
                      /\ risk_level' = categorize(p)
    /\ UNCHANGED disk

(* an operator replaces the artifact files; once a load is cached the      *)
(* files are never read again.                                             *)
Deploy ==
    /\ artifacts = NotLoaded
    /\ disk' \in Deployments
    /\ UNCHANGED <<artifacts, stage, record, input_df, engineered, processed_df,
                   scaler_input, scaled_data, used, probability, risk_level>>

Init ==
    /\ disk \in Deployments
    /\ artifacts = NotLoaded
    /\ stage = "not_run"
    /\ record = NoFrame
    /\ input_df = NoFrame
    /\ engineered = NoFrame
    /\ processed_df = NoFrame
    /\ scaler_input = NoFrame
    /\ scaled_data = NoData
    /\ used = {}
    /\ probability = NaN
    /\ risk_level = ""

Submit == RunScores(SessionRecords, Probabilities)

Next == RunStopsAtLoad \/ RunShowsForm \/ Submit \/ Deploy

Spec == Init /\ [][Next]_vars

(* One request on a loaded process, over every record of the input sets:   *)
(* the state after a first run that loaded the artifacts and drew the form *)
InitInputs ==
    /\ disk \in GoodDisks
    /\ artifacts = load_artifacts(disk).value
    /\ stage = "form"
    /\ record = NoFrame
    /\ input_df = NoFrame
    /\ engineered = NoFrame
    /\ processed_df = NoFrame
    /\ scaler_input = NoFrame
    /\ scaled_data = NoData
    /\ used = {}
    /\ probability = NaN
    /\ risk_level = ""

SubmitOnce == stage = "form" /\ RunScores(Records, EdgeProbabilities)

NextInputs == SubmitOnce

SpecInputs == InitInputs /\ [][NextInputs]_vars

----------------------------------------------------------------------------
(* Properties *)

Requested == stage \in {"preprocess_error", "scored"}
SchemaNames == artifacts.feature_names.names
SchemaIsList == artifacts.feature_names.type = "list"
ImputersFitted ==
    /\ artifacts.imputer_median.type = "SimpleImputer"
    /\ artifacts.imputer_mode.type = "SimpleImputer"
Indicators == {"AgeGroup_Middle-aged", "AgeGroup_Senior", "AgeGroup_Elderly"}
TruncatedAge == Col(record, "age")[1] \div Col(record, "age")[2]
WellFormed(art) ==
    /\ art.model.type = "XGBClassifier"
    /\ art.scaler.type = "StandardScaler"
    /\ art.imputer_median.type = "SimpleImputer"
    /\ art.imputer_mode.type = "SimpleImputer"
    /\ art.feature_names.type = "list"

(* C1: for every record and every schema list without the label column,   *)
(* the frame handed to scaler.transform has exactly the schema's columns:  *)
(* each schema name once, in schema order, none extra, none missing, so    *)
(* its length is the schema length whichever age group the record is in.   *)
C1_ScalerInputIsSchema ==
    (Requested /\ SchemaIsList /\ ImputersFitted /\ LabelColumn \notin Range(SchemaNames))
        => /\ "scaler" \in used
           /\ Names(scaler_input) = SchemaNames
           /\ Len(scaler_input) = Len(SchemaNames)
           /\ Columns(scaler_input) = Range(SchemaNames)
           /\ \A c \in Range(SchemaNames) :
                Cardinality({i \in 1..Len(scaler_input) : scaler_input[i].name = c}) = 1

C1_Witness ==
    /\ "scaler" \in used
    /\ SchemaNames = ReorderedSchema
    /\ Names(scaler_input) = ReorderedSchema
    /\ Col(scaler_input, "AgeGroup_Elderly") = Num(1)

(* C2: when the aligned frame's column count differs from the scaler's     *)
(* fitted column count, the request ends in a preprocessing error: the     *)
(* classifier is not called, no probability or band is produced and no     *)
(* scaled array, truncated or padded, is returned.                         *)
C2_WidthMismatchRejected ==
    ("scaler" \in used /\ Len(scaler_input) # artifacts.scaler.param)
        => /\ stage = "preprocess_error"
           /\ "model" \notin used
           /\ probability = NaN
           /\ risk_level = ""
           /\ scaled_data = NoData

C2_Witness ==
    /\ stage = "preprocess_error"
    /\ "scaler" \in used
    /\ artifacts.scaler.type = "StandardScaler"
    /\ Names(scaler_input) = SchemaNames
    /\ Len(scaler_input) > artifacts.scaler.param

(* C3: a scored probability p in [0,1] gets exactly one band: Low iff      *)
(* p < 0.3, Medium iff 0.3 <= p < 0.7, High iff 0.7 <= p <= 1.             *)
C3_BandsPartition ==
    stage = "scored"
        => LET k == probability[1]
               d == probability[2]
           IN  /\ risk_level \in {"Low Risk", "Medium Risk", "High Risk"}
               /\ (risk_level = "Low Risk") <=> (10 * k < 3 * d)
               /\ (risk_level = "Medium Risk") <=> (3 * d <= 10 * k /\ 10 * k < 7 * d)
               /\ (risk_level = "High Risk") <=> (7 * d <= 10 * k /\ k <= d)

C3_Witness ==
    /\ stage = "scored"
    /\ 10 * probability[1] = 3 * probability[2]
    /\ risk_level = "Medium Risk"

(* C4: no request is preprocessed or scored unless all five loaded         *)
(* artifacts are of the fitted types the loader's message names.           *)
C4_OnlyWellFormedArtifactsServe == used # {} => WellFormed(artifacts)

(* C5: imputation precedes feature engineering: the frame the features     *)
(* are derived from has the fitted median for a missing MonthlyIncome, the *)
(* fitted mode for a missing NumberOfDependents, and a present field       *)
(* unchanged; IncomeDebtRatio is computed from that income.                *)
C5_ImputedBeforeEngineered ==
    engineered # NoFrame
        => LET inc0 == Col(record, "MonthlyIncome")
               dep0 == Col(record, "NumberOfDependents")
               inc == Col(engineered, "MonthlyIncome")
               dep == Col(engineered, "NumberOfDependents")
           IN  /\ inc = IF IsFinite(inc0) THEN inc0 ELSE Num(artifacts.imputer_median.param)
               /\ dep = IF IsFinite(dep0) THEN dep0 ELSE Num(artifacts.imputer_mode.param)
               /\ IsFinite(Col(engineered, "IncomeDebtRatio"))
               /\ Col(engineered, "IncomeDebtRatio")
                    = IncomeDebtRatio(inc, Col(record, "DebtRatio"))

C5_Witness ==
    /\ engineered # NoFrame
    /\ ~IsFinite(Col(record, "MonthlyIncome"))
    /\ ~IsFinite(Col(record, "NumberOfDependents"))
    /\ Col(engineered, "MonthlyIncome") = Num(FittedMedian)
    /\ Col(engineered, "NumberOfDependents") = Num(FittedMode)
    /\ Col(engineered, "IncomeDebtRatio")[1] > 0

(* C6: with a the age truncated to an integer, the aligned frame's         *)
(* indicators are all 0 iff a <= 30, only Middle-aged is 1 iff             *)
(* 31 <= a <= 50, only Senior iff 51 <= a <= 65, only Elderly iff          *)
(* 66 <= a <= 100; at most one indicator is 1.                             *)
C6_AgeGroupIndicators ==
    (scaler_input # NoFrame /\ Indicators \subseteq Columns(scaler_input))
        => LET a == TruncatedAge
               m == Col(scaler_input, "AgeGroup_Middle-aged")
               s == Col(scaler_input, "AgeGroup_Senior")
               e == Col(scaler_input, "AgeGroup_Elderly")
               zero == Num(0)
               one == Num(1)
           IN  /\ {m, s, e} \subseteq {zero, one}
               /\ (m = zero /\ s = zero /\ e = zero) <=> (a <= 30)
               /\ (m = one /\ s = zero /\ e = zero) <=> (31 <= a /\ a <= 50)
               /\ (m = zero /\ s = one /\ e = zero) <=> (51 <= a /\ a <= 65)
               /\ (m = zero /\ s = zero /\ e = one) <=> (66 <= a /\ a <= 100)
               /\ Cardinality({c \in Indicators : Col(scaler_input, c) = one}) <= 1

C6_Witness ==
    /\ scaler_input # NoFrame
    /\ Indicators \subseteq Columns(scaler_input)
    /\ Col(record, "age")[1] % AgeDen # 0
    /\ TruncatedAge = 30
    /\ \A c \in Indicators : Col(scaler_input, c) = Num(0)

(* C7: IncomeDebtRatio is 0 when DebtRatio is 0; otherwise it is           *)
(* MonthlyIncome / (DebtRatio * MonthlyIncome + 0.000001), which is not    *)
(* 1 / DebtRatio and is 0 for a zero income; the quotient numpy computes   *)
(* never has a zero denominator.                                           *)
C7_IncomeDebtRatioFormula ==
    engineered # NoFrame
        => LET inc == Col(engineered, "MonthlyIncome")
               debt == Col(engineered, "DebtRatio")
               idr == Col(engineered, "IncomeDebtRatio")
               i == inc[1]
               dr == debt[1]
           IN  /\ inc[2] = 1 /\ debt[2] = DrDen /\ i >= 0 /\ dr >= 0
               /\ IsFinite(idr)
               /\ dr = 0 => RZero(idr)
               /\ dr # 0 => idr = <<i * DrDen * EpsDen, dr * i * EpsDen + DrDen>>
               /\ (dr # 0 /\ i = 0) => RZero(idr)
               /\ (dr # 0 /\ i # 0) => RLt(idr, <<DrDen, dr>>)
               /\ IsFinite(RDiv(inc, Denominator(inc, debt)))

C7_Witness ==
    /\ engineered # NoFrame
    /\ Col(engineered, "DebtRatio")[1] # 0
    /\ Col(engineered, "MonthlyIncome")[1] # 0
    /\ IsFinite(Col(record, "MonthlyIncome"))
    /\ Col(engineered, "IncomeDebtRatio")[1] > 0
    /\ RLt(Col(engineered, "IncomeDebtRatio"), <<DrDen, Col(engineered, "DebtRatio")[1]>>)

(* C8: once loaded, the fitted artifacts are changed by no script run,     *)
(* whether its request is scored or rejected.                              *)
C8_ArtifactsReadOnly == [][artifacts # NotLoaded => artifacts' = artifacts]_vars

C8_Witness ==
    /\ stage = "preprocess_error"
    /\ "scaler" \in used
    /\ artifacts = [f \in required_files |-> disk[f].obj]
    /\ Len(scaler_input) # artifacts.scaler.param

(* C9: the record the caller passed to preprocess_input has the same       *)
(* field values after the call as when it was created.                     *)
C9_RecordUnchanged == Requested => input_df = record

(* C10: with the label column in the schema list every request ends in a   *)
(* preprocessing error: the fill loop adds every other missing column but  *)
(* not the label, the selection fails, and nothing reaches the scaler or   *)
(* the classifier.                                                         *)
C10_LabelInSchemaRejected ==
    (Requested /\ SchemaIsList /\ ImputersFitted /\ LabelColumn \in Range(SchemaNames))
        => /\ stage = "preprocess_error"
           /\ ~HasCol(processed_df, LabelColumn)
           /\ Range(SchemaNames) \ {LabelColumn} \subseteq Columns(processed_df)
           /\ scaler_input = NoFrame
           /\ "scaler" \notin used
           /\ "model" \notin used
           /\ scaled_data = NoData
           /\ probability = NaN
           /\ risk_level = ""

C10_Witness ==
    /\ stage = "preprocess_error"
    /\ LabelColumn \in Range(SchemaNames)
    /\ HasCol(processed_df, "AgeGroup_Elderly")
    /\ ~HasCol(processed_df, LabelColumn)
    /\ used = {"imputer_median", "imputer_mode", "feature_names"}

====
